---------------------------- MODULE Spec2Model ----------------------------
(***************************************************************************)
(* Model of the un-optional-chaining transformation of @wakaru/unminify:   *)
(* the driver transformAST, the engine convertOptionalChaining /           *)
(* constructOptionalChaining / applyOptionalChaining, and the independent  *)
(* nullish-coalescing analyzer analyzeOptionalChain.                       *)
(*                                                                         *)
(* AST nodes are records [type, tag, kids]: `type` is the ESTree node      *)
(* type, `tag` the operator / identifier name / literal text, `kids` the   *)
(* child expressions in field order.  Accessors below give the fields      *)
(* their source names (Object, Property, Left, Right, ...).                *)
(***************************************************************************)
EXTENDS Integers, Sequences, FiniteSets, TLC

(***************************************************************************)
(* AST builders (the jscodeshift builders j.identifier, j.memberExpression *)
(* ...) and field accessors.                                               *)
(***************************************************************************)
N(type, tag, kids) == [type |-> type, tag |-> tag, kids |-> kids]

\* JavaScript null / undefined as a function argument or result (no node)
NoNode == N("None", "", <<>>)

identifier(name) == N("Identifier", name, <<>>)
nullLiteral == N("NullLiteral", "null", <<>>)
numericLiteral(v) == N("NumericLiteral", v, <<>>)
stringLiteral(v) == N("StringLiteral", v, <<>>)
booleanLiteral(v) == N("BooleanLiteral", v, <<>>)
memberExpression(object, property, computed) ==
    N("MemberExpression", IF computed THEN "computed" ELSE "static", <<object, property>>)
optionalMemberExpression(object, property, computed) ==
    N("OptionalMemberExpression", IF computed THEN "computed" ELSE "static", <<object, property>>)
callExpression(callee, args) == N("CallExpression", "", <<callee>> \o args)
optionalCallExpression(callee, args) == N("OptionalCallExpression", "", <<callee>> \o args)
assignmentExpression(operator, left, right) == N("AssignmentExpression", operator, <<left, right>>)
binaryExpression(operator, left, right) == N("BinaryExpression", operator, <<left, right>>)
logicalExpression(operator, left, right) == N("LogicalExpression", operator, <<left, right>>)
conditionalExpression(test, consequent, alternate) ==
    N("ConditionalExpression", "?:", <<test, consequent, alternate>>)
unaryExpression(operator, argument) == N("UnaryExpression", operator, <<argument>>)
spreadElement(argument) == N("SpreadElement", "...", <<argument>>)
arrayExpression(elements) == N("ArrayExpression", "[]", elements)
sequenceExpression(expressions) == N("SequenceExpression", ",", expressions)

Object(n) == n.kids[1]
Property(n) == n.kids[2]
Computed(n) == n.tag = "computed"
Callee(n) == n.kids[1]
Arguments(n) == Tail(n.kids)
Left(n) == n.kids[1]
Right(n) == n.kids[2]
Test(n) == n.kids[1]
Consequent(n) == n.kids[2]
Alternate(n) == n.kids[3]
Argument(n) == n.kids[1]

\* j.X.check(node).  In ast-types OptionalMemberExpression is declared with
\* bases("MemberExpression") and OptionalCallExpression with
\* bases("CallExpression"), so the base type's check accepts the subtype.
IsIdentifier(n) == n.type = "Identifier"
IsMemberExpression(n) == n.type \in {"MemberExpression", "OptionalMemberExpression"}
IsOptionalMemberExpression(n) == n.type = "OptionalMemberExpression"
IsCallExpression(n) == n.type \in {"CallExpression", "OptionalCallExpression"}
IsOptionalCallExpression(n) == n.type = "OptionalCallExpression"
IsAssignmentExpression(n) == n.type = "AssignmentExpression"
IsBinaryExpression(n) == n.type = "BinaryExpression"
IsLogicalExpression(n) == n.type = "LogicalExpression"
IsConditionalExpression(n) == n.type = "ConditionalExpression"
IsUnaryExpression(n) == n.type = "UnaryExpression"
IsSpreadElement(n) == n.type = "SpreadElement"
IsArrayExpression(n) == n.type = "ArrayExpression"
IsSequenceExpression(n) == n.type = "SequenceExpression"
IsNullLiteral(n) == n.type = "NullLiteral"

(***************************************************************************)
(* Matchers of @wakaru/ast-utils/matchers.                                 *)
(***************************************************************************)
areNodesEqual(a, b) == a = b

isNull(n) == IsNullLiteral(n)

isUndefined(n) ==
    \/ IsIdentifier(n) /\ n.tag = "undefined"
    \/ IsUnaryExpression(n) /\ n.tag = "void" /\ Argument(n) = numericLiteral("0")

isTrue(n) ==
    \/ n = booleanLiteral("true")
    \/ IsUnaryExpression(n) /\ n.tag = "!" /\ Argument(n) = numericLiteral("0")

isNullBinary(n) ==
    /\ IsBinaryExpression(n)
    /\ n.tag \in {"==", "==="}
    /\ (isNull(Left(n)) \/ isNull(Right(n)))

isNotNullBinary(n) ==
    /\ IsBinaryExpression(n)
    /\ n.tag \in {"!=", "!=="}
    /\ (isNull(Left(n)) \/ isNull(Right(n)))

isUndefinedBinary(n) ==
    /\ IsBinaryExpression(n)
    /\ n.tag \in {"==", "==="}
    /\ (isUndefined(Left(n)) \/ isUndefined(Right(n)))

\* smartParenthesized only marks the node for the printer; the tree is the same
smartParenthesized(n) == n

(***************************************************************************)
(* Generic traversal: the strict descendants of a node in the pre-order of *)
(* the visitor that backs j(node).find(...) (the root is not reported).    *)
(***************************************************************************)
RECURSIVE Descendants(_)
RECURSIVE DescendantsOfKids(_, _)
Descendants(n) == DescendantsOfKids(n.kids, 1)
DescendantsOfKids(kids, i) ==
    IF i > Len(kids) THEN <<>>
    ELSE <<kids[i]>> \o Descendants(kids[i]) \o DescendantsOfKids(kids, i + 1)

\* j(node).find(j.AssignmentExpression, { left: { type: 'Identifier' } }).nodes()
IsIdentAssignment(n) == IsAssignmentExpression(n) /\ IsIdentifier(Left(n))
findNestedAssignment(n) == SelectSeq(Descendants(n), IsIdentAssignment)

(***************************************************************************)
(* Decision trees (utils/decisionTree).  NullTree is an absent branch.     *)
(***************************************************************************)
NullTree == [condition |-> NoNode, leaf |-> TRUE]
Tree(c, t, f) == [condition |-> c, trueBranch |-> t, falseBranch |-> f]

RECURSIVE makeDecisionTree(_)
makeDecisionTree(node) ==
    IF IsConditionalExpression(node)
    THEN Tree(Test(node), makeDecisionTree(Consequent(node)), makeDecisionTree(Alternate(node)))
    ELSE IF IsLogicalExpression(node) /\ node.tag = "&&"
    THEN Tree(Left(node), makeDecisionTree(Right(node)), NullTree)
    ELSE IF IsLogicalExpression(node) /\ node.tag = "||"
    THEN Tree(Left(node), NullTree, makeDecisionTree(Right(node)))
    ELSE Tree(node, NullTree, NullTree)

RECURSIVE makeDecisionTreeWithConditionSplitting(_)
makeDecisionTreeWithConditionSplitting(tree) ==
    LET condition == tree.condition
        trueBranch == tree.trueBranch
        falseBranch == tree.falseBranch
    IN  IF IsLogicalExpression(condition) /\ condition.tag = "&&"
        THEN makeDecisionTreeWithConditionSplitting(
                Tree(Left(condition), Tree(Right(condition), trueBranch, falseBranch), falseBranch))
        ELSE IF IsLogicalExpression(condition) /\ condition.tag = "||"
        THEN makeDecisionTreeWithConditionSplitting(
                Tree(Left(condition), trueBranch, Tree(Right(condition), trueBranch, falseBranch)))
        ELSE Tree(condition,
                  IF trueBranch = NullTree THEN NullTree
                  ELSE makeDecisionTreeWithConditionSplitting(trueBranch),
                  IF falseBranch = NullTree THEN NullTree
                  ELSE makeDecisionTreeWithConditionSplitting(falseBranch))

\* utils/condition negateCondition: the logical negation of an expression
RECURSIVE negateCondition(_)
negateCondition(c) ==
    IF IsUnaryExpression(c) /\ c.tag = "!" THEN Argument(c)
    ELSE IF IsBinaryExpression(c) /\ c.tag = "==" THEN binaryExpression("!=", Left(c), Right(c))
    ELSE IF IsBinaryExpression(c) /\ c.tag = "!=" THEN binaryExpression("==", Left(c), Right(c))
    ELSE IF IsBinaryExpression(c) /\ c.tag = "===" THEN binaryExpression("!==", Left(c), Right(c))
    ELSE IF IsBinaryExpression(c) /\ c.tag = "!==" THEN binaryExpression("===", Left(c), Right(c))
    ELSE IF IsLogicalExpression(c) /\ c.tag = "||"
    THEN logicalExpression("&&", negateCondition(Left(c)), negateCondition(Right(c)))
    ELSE IF IsLogicalExpression(c) /\ c.tag = "&&"
    THEN logicalExpression("||", negateCondition(Left(c)), negateCondition(Right(c)))
    ELSE unaryExpression("!", c)

RECURSIVE negateDecisionTree(_)
negateDecisionTree(tree) ==
    Tree(negateCondition(tree.condition),
         IF tree.falseBranch = NullTree THEN NullTree ELSE negateDecisionTree(tree.falseBranch),
         IF tree.trueBranch = NullTree THEN NullTree ELSE negateDecisionTree(tree.trueBranch))

\* isFalsyBranch without the test of the node's own condition
isFalsyBranchChildrenOnly(tree) == TRUE

RECURSIVE isFalsyBranch(_)
isFalsyBranch(tree) ==
    IF tree = NullTree THEN TRUE
    ELSE /\ (isNull(tree.condition) \/ isUndefined(tree.condition))
         /\ (tree.trueBranch = NullTree \/ isFalsyBranch(tree.trueBranch))
         /\ (tree.falseBranch = NullTree \/ isFalsyBranch(tree.falseBranch))

RECURSIVE getDeepestFalseBranch(_)
getDeepestFalseBranch(tree) ==
    IF tree.falseBranch = NullTree THEN tree
    ELSE getDeepestFalseBranch(tree.falseBranch)

(***************************************************************************)
(* applyOptionalChaining: the Expression Rewriter.  The result carries the *)
(* returned node, whether the call set the module-level flag `transformed` *)
(* and whether an AST builder threw (a required field given undefined).    *)
(*                                                                         *)
(* ApplyPlan picks the arm of the function the node takes and the          *)
(* sub-expressions that arm rewrites recursively (`subs`); ApplyResult     *)
(* builds what the arm returns from the rewritten sub-expressions.         *)
(***************************************************************************)
R(node, transformed, threw) == [node |-> node, transformed |-> transformed, threw |-> threw]

\* memberExpressionKindTypes / patternKindTypes of @wakaru/ast-utils/kinds
IsMemberOrPatternKind(n) ==
    n.type \in {"Identifier", "MemberExpression", "OptionalMemberExpression"}

Plan(arm, subs) == [arm |-> arm, subs |-> subs]

\* the CallExpression / OptionalCallExpression arm (lines 217-336)
CallPlan(node, tempVariable, targetExpression) ==
    LET callee == Callee(node)
        args == Arguments(node)
        arg0 == IF Len(args) >= 1 THEN args[1] ELSE NoNode
        arg1 == IF Len(args) >= 2 THEN args[2] ELSE NoNode
        rest == IF args = <<>> THEN <<>> ELSE Tail(args)
        calleeIsMember == IsMemberExpression(callee)
        propName == IF calleeIsMember /\ IsIdentifier(Property(callee))
                    THEN Property(callee).tag ELSE ""
        deepCallee == calleeIsMember /\ IsMemberExpression(Object(callee))
                        /\ IsIdentifier(Property(callee))
        calleeObjIsTemp == calleeIsMember /\ areNodesEqual(Object(callee), tempVariable)
                             /\ IsIdentifier(Property(callee))
        \* `.apply(_, arg)`: an array literal is expanded, anything else spread
        \* (a hole of the array literal, NoNode here, becomes `undefined`)
        applyArgList == IF IsArrayExpression(arg1)
                        THEN [i \in 1..Len(arg1.kids) |->
                                IF arg1.kids[i] = NoNode THEN identifier("undefined")
                                ELSE arg1.kids[i]]
                        ELSE <<spreadElement(arg1)>>
    IN
    IF deepCallee /\ propName = "call" /\ areNodesEqual(arg0, tempVariable)
    THEN Plan("call", <<Object(callee)>> \o rest)
    ELSE IF deepCallee /\ propName = "apply"
    THEN IF IsSpreadElement(arg1) THEN Plan("return-node", <<>>)
         ELSE IF arg1 = NoNode THEN Plan("throw", <<>>)
         ELSE Plan("apply", <<Object(callee)>> \o applyArgList)
    ELSE IF deepCallee /\ propName = "bind" /\ areNodesEqual(arg0, tempVariable)
    THEN Plan("bind", <<Object(Object(callee)), Property(Object(callee))>>)
    ELSE IF calleeObjIsTemp /\ propName = "call"
    THEN IF targetExpression = NoNode THEN Plan("throw", <<>>)
         ELSE Plan("temp-call", rest)
    ELSE IF calleeObjIsTemp /\ propName = "apply"
    THEN IF IsSpreadElement(arg1) THEN Plan("return-node", <<>>)
         ELSE IF arg1 = NoNode \/ targetExpression = NoNode THEN Plan("throw", <<>>)
         ELSE Plan("temp-apply", applyArgList)
    ELSE IF /\ IsSequenceExpression(callee)
            /\ Len(callee.kids) = 2
            /\ callee.kids[1] = numericLiteral("0")
            /\ areNodesEqual(callee.kids[2], tempVariable)
    THEN Plan("sequence-callee", args)
    ELSE IF areNodesEqual(callee, tempVariable) THEN Plan("callee", <<>>)
    ELSE Plan("rebuild-call", <<callee>> \o args)

\* `node.right === targetExpression` compares node identity; the target is the
\* right side of the assignment being folded, so the model compares the trees.
ApplyPlan(node, tempVariable, targetExpression) ==
    IF IsMemberExpression(node)
    THEN IF areNodesEqual(Object(node), tempVariable) THEN Plan("member", <<>>)
         ELSE Plan("member-object", <<Object(node)>>)
    ELSE IF IsCallExpression(node) THEN CallPlan(node, tempVariable, targetExpression)
    ELSE IF IsAssignmentExpression(node)
    THEN IF targetExpression # NoNode /\ areNodesEqual(Left(node), tempVariable)
         THEN IF Right(node) = targetExpression THEN Plan("assignment-is-target", <<>>)
              ELSE IF IsMemberOrPatternKind(targetExpression)
              THEN Plan("assignment-left", <<>>)
              ELSE Plan("return-node", <<>>)
         ELSE Plan("return-node", <<>>)
    ELSE IF targetExpression # NoNode /\ IsIdentifier(node) /\ areNodesEqual(node, tempVariable)
    THEN Plan("identifier", <<>>)
    ELSE IF IsUnaryExpression(node) THEN Plan("unary", <<Argument(node)>>)
    ELSE Plan("return-node", <<>>)

\* `subs`: [nodes, transformed, threw] of the arm's recursive calls
ApplyResult(arm, node, tempVariable, targetExpression, subs) ==
    LET target == IF targetExpression # NoNode THEN targetExpression ELSE NoNode
        rs == subs.nodes
    IN
    CASE arm = "member" ->
            R(optionalMemberExpression(
                 IF targetExpression # NoNode THEN smartParenthesized(targetExpression)
                 ELSE Object(node),
                 Property(node), Computed(node)), TRUE, FALSE)
      [] arm = "member-object" ->
            R(N(node.type, node.tag, <<rs[1], Property(node)>>), subs.transformed, subs.threw)
      [] arm \in {"call", "apply"} ->
            R(optionalCallExpression(Head(rs), Tail(rs)), TRUE, subs.threw)
      [] arm = "bind" ->
            LET calleeObj == Object(Callee(node))
                isOptional == ~IsAssignmentExpression(Object(calleeObj))
            IN  R(IF isOptional
                  THEN optionalMemberExpression(rs[1], rs[2], Computed(calleeObj))
                  ELSE memberExpression(rs[1], rs[2], Computed(calleeObj)),
                  isOptional \/ subs.transformed, subs.threw)
      [] arm \in {"temp-call", "temp-apply"} ->
            R(optionalCallExpression(targetExpression, rs), TRUE, subs.threw)
      [] arm = "sequence-callee" ->
            R(optionalCallExpression(
                 smartParenthesized(sequenceExpression(
                     <<numericLiteral("0"),
                       IF targetExpression # NoNode THEN targetExpression
                       ELSE Callee(node).kids[2]>>)),
                 rs), TRUE, subs.threw)
      [] arm = "callee" ->
            R(optionalCallExpression(
                 IF targetExpression # NoNode THEN targetExpression ELSE Callee(node),
                 Arguments(node)), TRUE, FALSE)
      [] arm = "rebuild-call" ->
            R(IF IsOptionalCallExpression(node)
              THEN optionalCallExpression(Head(rs), Tail(rs))
              ELSE callExpression(Head(rs), Tail(rs)),
              subs.transformed, subs.threw)
      [] arm = "assignment-is-target" -> R(targetExpression, FALSE, FALSE)
      [] arm = "assignment-left" ->
            R(assignmentExpression(node.tag, targetExpression, Right(node)), FALSE, FALSE)
      [] arm = "identifier" -> R(smartParenthesized(targetExpression), FALSE, FALSE)
      [] arm = "unary" ->
            R(unaryExpression(node.tag, rs[1]), subs.transformed, subs.threw)
      [] arm = "throw" -> R(NoNode, FALSE, TRUE)
      [] arm = "return-node" -> R(node, FALSE, FALSE)

RECURSIVE applyOptionalChaining(_, _, _)
RECURSIVE applyEach(_, _, _)

PrependResult(h, r) ==
    [nodes |-> <<h.node>> \o r.nodes,
     transformed |-> h.transformed \/ r.transformed,
     threw |-> h.threw \/ r.threw]

\* list.map(arg => j.SpreadElement.check(arg) ? arg : applyOptionalChaining(...))
applyEach(list, tempVariable, targetExpression) ==
    IF list = <<>> THEN [nodes |-> <<>>, transformed |-> FALSE, threw |-> FALSE]
    ELSE PrependResult(
            IF IsSpreadElement(Head(list)) THEN R(Head(list), FALSE, FALSE)
            ELSE applyOptionalChaining(Head(list), tempVariable, targetExpression),
            applyEach(Tail(list), tempVariable, targetExpression))

ApplyWithPlan(plan, node, tempVariable, targetExpression) ==
    ApplyResult(plan.arm, node, tempVariable, targetExpression,
                applyEach(plan.subs, tempVariable, targetExpression))

applyOptionalChaining(node, tempVariable, targetExpression) ==
    ApplyWithPlan(ApplyPlan(node, tempVariable, targetExpression),
                  node, tempVariable, targetExpression)

(***************************************************************************)
(* What a call of applyOptionalChaining leaves of the node it was given.   *)
(* Line 214 assigns the rewritten object to `node.object` of the node      *)
(* itself; every other arm builds new nodes, but its recursive calls can   *)
(* reach a member expression below and edit that one in place.             *)
(***************************************************************************)
RECURSIVE Mutated(_, _, _)
RECURSIVE MutatedEach(_, _, _)

\* the list after list.map(arg => SpreadElement.check(arg) ? arg : applyOptionalChaining(...))
MutatedEach(list, tempVariable, targetExpression) ==
    [i \in 1..Len(list) |->
        IF IsSpreadElement(list[i]) THEN list[i]
        ELSE Mutated(list[i], tempVariable, targetExpression)]

\* the `.apply` arms recurse into the elements of an array literal only
MutatedApplyArguments(args, tempVariable, targetExpression) ==
    IF Len(args) >= 2 /\ IsArrayExpression(args[2])
    THEN <<args[1], arrayExpression(MutatedEach(args[2].kids, tempVariable, targetExpression))>>
         \o SubSeq(args, 3, Len(args))
    ELSE args

\* the callee `<object>.<property>` with its object as the recursion left it
MutatedCallee(callee, tempVariable, targetExpression) ==
    N(callee.type, callee.tag,
      <<Mutated(Object(callee), tempVariable, targetExpression), Property(callee)>>)

MutatedIn(arm, node, tempVariable, targetExpression) ==
    CASE arm = "member-object" ->
            N(node.type, node.tag,
              <<applyOptionalChaining(Object(node), tempVariable, targetExpression).node,
                Property(node)>>)
      [] arm = "call" ->
            N(node.type, node.tag,
              <<MutatedCallee(Callee(node), tempVariable, targetExpression),
                Head(Arguments(node))>>
              \o MutatedEach(Tail(Arguments(node)), tempVariable, targetExpression))
      [] arm = "apply" ->
            N(node.type, node.tag,
              <<MutatedCallee(Callee(node), tempVariable, targetExpression)>>
              \o MutatedApplyArguments(Arguments(node), tempVariable, targetExpression))
      [] arm = "bind" ->
            N(node.type, node.tag,
              <<N(Callee(node).type, Callee(node).tag,
                  <<MutatedCallee(Object(Callee(node)), tempVariable, targetExpression),
                    Property(Callee(node))>>)>>
              \o Arguments(node))
      [] arm = "temp-call" ->
            N(node.type, node.tag,
              <<Callee(node), Head(Arguments(node))>>
              \o MutatedEach(Tail(Arguments(node)), tempVariable, targetExpression))
      [] arm = "temp-apply" ->
            N(node.type, node.tag,
              <<Callee(node)>>
              \o MutatedApplyArguments(Arguments(node), tempVariable, targetExpression))
      [] arm = "sequence-callee" ->
            N(node.type, node.tag,
              <<Callee(node)>> \o MutatedEach(Arguments(node), tempVariable, targetExpression))
      [] arm = "rebuild-call" ->
            N(node.type, node.tag,
              <<Mutated(Callee(node), tempVariable, targetExpression)>>
              \o MutatedEach(Arguments(node), tempVariable, targetExpression))
      [] arm = "unary" ->
            N(node.type, node.tag, <<Mutated(Argument(node), tempVariable, targetExpression)>>)
      [] OTHER -> node

Mutated(node, tempVariable, targetExpression) ==
    MutatedIn(ApplyPlan(node, tempVariable, targetExpression).arm,
              node, tempVariable, targetExpression)

(***************************************************************************)
(* constructOptionalChaining: the Chain Constructor.  The result carries   *)
(*   node         the returned expression (NoNode for null)                *)
(*   transformed  whether the call set the flag `transformed`              *)
(*   substituted  whether some applyOptionalChaining call of the attempt   *)
(*                built an optional member access or optional call         *)
(*   cleaned      the names handed to removeDeclarationIfUnused            *)
(*   threw        whether an AST builder threw                             *)
(*   exit         the return statement taken by the outermost call         *)
(*   events       the calls made so far, in order, with their arguments:   *)
(*                "apply" for a call of applyOptionalChaining, "clean" for *)
(*                a call of removeDeclarationIfUnused (history)            *)
(***************************************************************************)
C(node, transformed, substituted, cleaned, threw, exit) ==
    [node |-> node, transformed |-> transformed, substituted |-> substituted,
     cleaned |-> cleaned, threw |-> threw, exit |-> exit, events |-> <<>>]

WithEvents(c, events) == [c EXCEPT !.events = events]

Call(call, node, tempVariable, targetExpression) ==
    [call |-> call, node |-> node, tempVariable |-> tempVariable,
     targetExpression |-> targetExpression]
ApplyCall(node, tempVariable, targetExpression) ==
    Call("apply", node, tempVariable, targetExpression)
CleanCalls(allAssignment) ==
    [i \in 1..Len(allAssignment) |-> Call("clean", NoNode, Left(allAssignment[i]), NoNode)]

NothingBefore == C(NoNode, FALSE, FALSE, {}, FALSE, "")

\* allAssignment.reduce((acc, curr) => applyOptionalChaining(j, acc, curr.left, curr.right), init)
RECURSIVE reduceAssignments(_, _)
RECURSIVE reduceRest(_, _)
MergeReduced(first, rest) == R(rest.node, first.transformed \/ rest.transformed, rest.threw)
reduceRest(allAssignment, first) ==
    IF first.threw THEN first
    ELSE MergeReduced(first, reduceAssignments(allAssignment, first.node))
reduceAssignments(allAssignment, acc) ==
    IF allAssignment = <<>> THEN R(acc, FALSE, FALSE)
    ELSE reduceRest(Tail(allAssignment),
                    applyOptionalChaining(acc, Left(Head(allAssignment)),
                                          Right(Head(allAssignment))))

\* the applyOptionalChaining calls of that reduce, in order
RECURSIVE ReduceCalls(_, _)
ReduceCalls(allAssignment, acc) ==
    IF allAssignment = <<>> THEN <<>>
    ELSE <<ApplyCall(acc, Left(Head(allAssignment)), Right(Head(allAssignment)))>>
         \o (IF applyOptionalChaining(acc, Left(Head(allAssignment)),
                                      Right(Head(allAssignment))).threw
             THEN <<>>
             ELSE ReduceCalls(Tail(allAssignment),
                              applyOptionalChaining(acc, Left(Head(allAssignment)),
                                                    Right(Head(allAssignment))).node))

\* the names of allAssignment.forEach(... removeDeclarationIfUnused(j, path, assignment.left.name))
AssignedNames(allAssignment) ==
    {Left(allAssignment[i]).tag :
        i \in {k \in 1..Len(allAssignment) : IsIdentifier(Left(allAssignment[k]))}}

\* the state after `before`, the applyOptionalChaining `calls` with their
\* `result` and the cleanup of the temporaries of `allAssignment`; `setsFlag`
\* is the unconditional `transformed = true` of line 173
AfterApply(before, result, allAssignment, setsFlag, exit, calls) ==
    WithEvents(
        C(IF result.threw THEN NoNode ELSE result.node,
          before.transformed \/ result.transformed \/ setsFlag,
          before.substituted \/ result.transformed,
          IF result.threw THEN before.cleaned
          ELSE before.cleaned \cup AssignedNames(allAssignment),
          result.threw, exit),
        before.events \o calls
            \o (IF result.threw THEN <<>> ELSE CleanCalls(allAssignment)))

\* flag === 0 and no falseBranch (lines 110-130): fold the assignments embedded
\* in the condition
LeafAssignments(condition) ==
    findNestedAssignment(condition)
        \o (IF IsIdentAssignment(condition) THEN <<condition>> ELSE <<>>)

constructLeaf(condition) ==
    AfterApply(NothingBefore,
               reduceAssignments(LeafAssignments(condition), condition),
               LeafAssignments(condition), FALSE, "leaf",
               ReduceCalls(LeafAssignments(condition), condition))

\* line 179
PartialCollapse(condition, r) ==
    WithEvents(
        C(IF r.threw THEN NoNode ELSE logicalExpression("||", condition, r.node),
          r.transformed, r.substituted, r.cleaned, r.threw, r.exit),
        r.events)

Failed(a, b, exit) ==
    WithEvents(
        C(NoNode, a.transformed \/ b.transformed, a.substituted \/ b.substituted,
          a.cleaned \cup b.cleaned, a.threw \/ b.threw, exit),
        a.events \o b.events)

\* lines 165-180, reached with `before` left behind by lines 132-163
constructRest(tree, before, cond) ==
    LET condition == tree.condition
        id == IF IsNullLiteral(Left(condition)) THEN Right(condition) ELSE Left(condition)
        both == Failed(before, cond, "")
    IN
    IF cond.threw \/ cond.node = NoNode THEN Failed(before, cond, "rest-failed")
    ELSE IF isNullBinary(condition) /\ (IsIdentifier(id) \/ IsMemberExpression(id))
    THEN AfterApply(both, applyOptionalChaining(cond.node, id, NoNode), <<>>, TRUE,
                    "null-check-right", <<ApplyCall(cond.node, id, NoNode)>>)
    ELSE PartialCollapse(condition,
            AfterApply(both, applyOptionalChaining(cond.node, condition, NoNode), <<>>, FALSE,
                       "partial-collapse", <<ApplyCall(cond.node, condition, NoNode)>>))

\* lines 132-163: `cond` is the descent with nextFlag, `second` the descent of
\* line 166 with flag 0
constructNullCheck(tree, cond, second) ==
    LET condition == tree.condition
        left == Left(condition)
        right == Right(condition)
        nonNullExpr == IF IsNullLiteral(left) THEN right ELSE left
        allAssignment == <<nonNullExpr>> \o findNestedAssignment(nonNullExpr)
    IN
    IF cond.threw \/ cond.node = NoNode THEN Failed(cond, NothingBefore, "null-check-failed")
    ELSE IF IsIdentAssignment(nonNullExpr)
    THEN AfterApply(cond, reduceAssignments(allAssignment, cond.node),
                    allAssignment, FALSE, "null-check-assignment",
                    ReduceCalls(allAssignment, cond.node))
    ELSE IF IsIdentifier(left) \/ IsMemberExpression(left)
    THEN AfterApply(cond, applyOptionalChaining(cond.node, left, NoNode), <<>>, FALSE,
                    "null-check", <<ApplyCall(cond.node, left, NoNode)>>)
    ELSE constructRest(tree, cond, second)

\* a descent that never looks for the undefined comparison
nextFlagSeekNull(operator) == 0

\* line 136: flag 0 looks for a null comparison, flag 1 for the undefined
\* comparison that must follow a strict one
nextFlag(operator) == IF operator = "==" THEN 0 ELSE 1

RECURSIVE constructOptionalChaining(_, _)
constructOptionalChaining(tree, flag) ==
    LET condition == tree.condition
        trueBranch == tree.trueBranch
        falseBranch == tree.falseBranch
        deepestFalseBranch == getDeepestFalseBranch(tree)
        rejected ==
            IF /\ trueBranch # NullTree
               /\ IsUnaryExpression(deepestFalseBranch.condition)
               /\ deepestFalseBranch.condition.tag = "delete"
            THEN ~isFalsyBranch(trueBranch) /\ ~isTrue(trueBranch.condition)
            ELSE ~isFalsyBranch(trueBranch)
        Below(f) == constructOptionalChaining(falseBranch, f)
    IN
    IF rejected THEN C(NoNode, FALSE, FALSE, {}, FALSE, "precondition")
    ELSE IF flag = 0
    THEN IF falseBranch = NullTree THEN constructLeaf(condition)
         ELSE IF isNullBinary(condition)
         THEN constructNullCheck(tree, Below(nextFlag(condition.tag)), Below(0))
         ELSE constructRest(tree, NothingBefore, Below(0))
    ELSE IF falseBranch = NullTree THEN C(NoNode, FALSE, FALSE, {}, FALSE, "seek-undefined-leaf")
    ELSE IF isUndefinedBinary(condition) THEN Below(0)
    ELSE C(NoNode, FALSE, FALSE, {}, FALSE, "seek-undefined-failed")

(***************************************************************************)
(* convertOptionalChaining: one attempt on one candidate.  `transformed`   *)
(* is reset at entry, so the flag at the end of the attempt is the one the *)
(* Chain Constructor leaves.  `path.node === _result` never holds: every   *)
(* value constructOptionalChaining returns is a condition of the tree, a   *)
(* node built by a builder or a substitution target, all strictly inside   *)
(* the candidate or new.                                                   *)
(***************************************************************************)
ConvertResult(isNotNull, r) ==
    [result |-> IF r.threw \/ ~r.transformed \/ r.node = NoNode THEN NoNode
                ELSE IF isNotNull THEN negateCondition(r.node) ELSE r.node,
     transformed |-> r.transformed,
     substituted |-> r.substituted,
     cleaned |-> r.cleaned,
     threw |-> r.threw,
     exit |-> r.exit,
     events |-> r.events,
     negated |-> isNotNull]

\* lines 70-74: the tree handed to constructOptionalChaining
splitTree(expression) == makeDecisionTreeWithConditionSplitting(makeDecisionTree(expression))
decisionTree(expression) ==
    IF isNotNullBinary(splitTree(expression).condition)
    THEN negateDecisionTree(splitTree(expression))
    ELSE splitTree(expression)

convertOptionalChaining(expression) ==
    ConvertResult(isNotNullBinary(splitTree(expression).condition),
                  constructOptionalChaining(decisionTree(expression), 0))

(***************************************************************************)
(* The nullish-coalescing analyzer (analyzeOptionalChain and helpers).     *)
(* A VarAssignment is [varName, parent, source, properties]; parent "" is  *)
(* the source's null.  The Map varMap is a function on the inserted names. *)
(***************************************************************************)
RECURSIVE extractLogicalOrConditions(_)
extractLogicalOrConditions(expr) ==
    IF IsLogicalExpression(expr) /\ expr.tag = "||"
    THEN extractLogicalOrConditions(Left(expr)) \o extractLogicalOrConditions(Right(expr))
    ELSE <<expr>>

EmptyMap == [n \in {} |-> NoNode]
MapSet(m, k, v) == [n \in DOMAIN m \cup {k} |-> IF n = k THEN v ELSE m[n]]
VarAssignment(varName, parent, source, properties) ==
    [varName |-> varName, parent |-> parent, source |-> source, properties |-> properties]

\* j(property).toSource() for the property kinds of the model
toSource(n) ==
    IF n.type = "StringLiteral" THEN "\"" \o n.tag \o "\"" ELSE n.tag

\* /^[a-zA-Z_$][a-zA-Z0-9_$]*$/.test(str), decided on the strings of the model:
\* printed numbers and quoted strings are the ones that do not match
InvalidIdentifierNames == {"0", "1", "\"k\""}
isValidIdentifier(str) == str \notin InvalidIdentifierNames

\* one iteration of the `for (const condition of conditions)` loop
analyzeCondition(st, condition) ==
    LET left == Left(condition)
        right == Right(condition)
        isCheck == /\ IsBinaryExpression(condition)
                   /\ condition.tag \in {"==", "===", "!=", "!=="}
                   /\ (isNull(left) \/ isNull(right) \/ isUndefined(left) \/ isUndefined(right))
        expr == IF isNull(left) \/ isUndefined(left) THEN right ELSE left
        \* Direct variable check: null == r
        st1 == IF IsIdentifier(expr) /\ st.rootVar = ""
               THEN [rootVar |-> expr.tag,
                     varMap |-> MapSet(st.varMap, expr.tag, VarAssignment(expr.tag, "", expr, <<>>))]
               ELSE st
        assignedVar == Left(expr).tag
        sourceExpr == Right(expr)
        objExpr == Object(sourceExpr)
        parentVar == IF IsIdentifier(objExpr) THEN objExpr.tag ELSE ""
        \* first assignment from the root variable establishes the root
        st2 == IF IsIdentifier(objExpr) /\ st1.rootVar = "" /\ parentVar \notin DOMAIN st1.varMap
               THEN [rootVar |-> parentVar,
                     varMap |-> MapSet(st1.varMap, parentVar,
                                       VarAssignment(parentVar, "", objExpr, <<>>))]
               ELSE st1
        property == Property(sourceExpr)
        propertyName == IF IsIdentifier(property) THEN property.tag ELSE toSource(property)
    IN  IF ~isCheck THEN st
        ELSE IF IsAssignmentExpression(expr) /\ IsIdentifier(Left(expr))
                  /\ IsMemberExpression(sourceExpr)
        THEN [rootVar |-> st2.rootVar,
              varMap |-> MapSet(st2.varMap, assignedVar,
                                VarAssignment(assignedVar, parentVar, sourceExpr,
                                    <<[propertyName |-> propertyName,
                                       computed |-> Computed(sourceExpr)]>>))]
        ELSE st1

RECURSIVE analyzeConditionsFrom(_, _)
analyzeConditionsFrom(st, conditions) ==
    IF conditions = <<>> THEN st
    ELSE analyzeConditionsFrom(analyzeCondition(st, Head(conditions)), Tail(conditions))

analyzeConditions(conditions) ==
    analyzeConditionsFrom([rootVar |-> "", varMap |-> EmptyMap], conditions)

\* the trace-back `while (currentVar && varMap.has(currentVar))` loop; MaxTrace
\* bounds the iterations the model follows, `diverged` reports the bound hit
MaxTrace == 6

\* the trace-back loop with push in place of unshift: the properties come out
\* inner-to-outer
RECURSIVE traceBackPushing(_, _, _, _)
traceBackPushing(varMap, currentVar, propertyChain, fuel) ==
    IF ~(currentVar # "" /\ currentVar \in DOMAIN varMap)
    THEN [propertyChain |-> propertyChain, diverged |-> FALSE]
    ELSE IF fuel = 0 THEN [propertyChain |-> propertyChain, diverged |-> TRUE]
    ELSE traceBackPushing(varMap, varMap[currentVar].parent,
                          propertyChain \o varMap[currentVar].properties, fuel - 1)

RECURSIVE traceBack(_, _, _, _)
traceBack(varMap, currentVar, propertyChain, fuel) ==
    IF ~(currentVar # "" /\ currentVar \in DOMAIN varMap)
    THEN [propertyChain |-> propertyChain, diverged |-> FALSE]
    ELSE IF fuel = 0 THEN [propertyChain |-> propertyChain, diverged |-> TRUE]
    ELSE LET varInfo == varMap[currentVar]
             \* properties.forEach(prop => propertyChain.unshift(prop))
             unshifted == [i \in 1..Len(varInfo.properties) |->
                              varInfo.properties[Len(varInfo.properties) + 1 - i]]
         IN  traceBack(varMap, varInfo.parent, unshifted \o propertyChain, fuel - 1)

RECURSIVE chainFrom(_, _)
chainFrom(expr, propertyChain) ==
    IF propertyChain = <<>> THEN expr
    ELSE LET p == Head(propertyChain)
             property == IF p.computed \/ ~isValidIdentifier(p.propertyName)
                         THEN stringLiteral(p.propertyName)
                         ELSE identifier(p.propertyName)
         IN  chainFrom(optionalMemberExpression(expr, property, p.computed), Tail(propertyChain))

buildOptionalChain(rootVar, varMap, finalAccess) ==
    LET obj == Object(finalAccess)
        prop == Property(finalAccess)
        traced == IF IsMemberExpression(finalAccess) /\ IsIdentifier(obj)
                       /\ obj.tag \in DOMAIN varMap
                  THEN traceBack(varMap, obj.tag,
                           <<[propertyName |-> IF IsIdentifier(prop) THEN prop.tag
                                               ELSE toSource(prop),
                              computed |-> Computed(finalAccess)]>>, MaxTrace)
                  ELSE [propertyChain |-> <<>>, diverged |-> FALSE]
    IN  [expr |-> IF traced.diverged \/ traced.propertyChain = <<>> THEN NoNode
                  ELSE chainFrom(identifier(rootVar), traced.propertyChain),
         diverged |-> traced.diverged]

\* result NoNode is the source's `return null`; `exit` names the check that
\* rejected the node; `cleaned` are the names cleanupTemporaryVariables offers
\* to removeDeclarationIfUnused
A(result, exit, cleaned, diverged) ==
    [result |-> result, exit |-> exit, cleaned |-> cleaned, diverged |-> diverged]

analyzeOptionalChain(node) ==
    LET test == Test(node)
        consequent == Consequent(node)
        alternate == Alternate(node)
        mainAssignmentCheck == Left(test)
        tempVar == Left(Right(mainAssignmentCheck))
        nestedConditional == Right(Right(mainAssignmentCheck))
        orConditions == extractLogicalOrConditions(Test(nestedConditional))
        analyzed == analyzeConditions(orConditions)
        finalExpr == buildOptionalChain(analyzed.rootVar, analyzed.varMap,
                                        Alternate(nestedConditional))
    IN
    IF ~IsConditionalExpression(node) THEN A(NoNode, "not-conditional", {}, FALSE)
    ELSE IF ~(IsLogicalExpression(test) /\ test.tag = "&&") THEN A(NoNode, "test", {}, FALSE)
    ELSE IF \/ ~IsBinaryExpression(mainAssignmentCheck)
            \/ mainAssignmentCheck.tag \notin {"!==", "!="}
            \/ ~isNull(Left(mainAssignmentCheck))
            \/ ~IsAssignmentExpression(Right(mainAssignmentCheck))
    THEN A(NoNode, "main-assignment-check", {}, FALSE)
    ELSE IF ~IsIdentifier(tempVar) THEN A(NoNode, "temp-var", {}, FALSE)
    ELSE IF ~IsIdentifier(consequent) \/ tempVar.tag # consequent.tag
    THEN A(NoNode, "consequent", {}, FALSE)
    ELSE IF ~IsConditionalExpression(nestedConditional)
    THEN A(NoNode, "nested-conditional", {}, FALSE)
    ELSE IF ~isUndefined(Consequent(nestedConditional))
    THEN A(NoNode, "nested-consequent", {}, FALSE)
    ELSE IF ~IsMemberExpression(Alternate(nestedConditional))
    THEN A(NoNode, "nested-alternate", {}, FALSE)
    ELSE IF analyzed.rootVar = "" THEN A(NoNode, "root-var", {}, FALSE)
    ELSE IF finalExpr.diverged THEN A(NoNode, "trace-back", {}, TRUE)
    ELSE IF finalExpr.expr = NoNode THEN A(NoNode, "final-expr", {}, FALSE)
    ELSE A(logicalExpression("??", finalExpr.expr, alternate), "result",
           DOMAIN analyzed.varMap, FALSE)

(***************************************************************************)
(* The document: `var <decls>;` followed by expression statements `body`.  *)
(* A path is the sequence of child indices from the statement list down;   *)
(* ast-types keeps one path object per place (child paths are cached), so  *)
(* the place identifies the path object until an ancestor is replaced.     *)
(***************************************************************************)
RECURSIVE GetAt(_, _)
GetAt(n, pos) == IF pos = <<>> THEN n ELSE GetAt(n.kids[Head(pos)], Tail(pos))

RECURSIVE ReplaceAt(_, _, _)
ReplaceAt(n, pos, new) ==
    IF pos = <<>> THEN new
    ELSE N(n.type, n.tag, [n.kids EXCEPT ![Head(pos)] = ReplaceAt(n.kids[Head(pos)], Tail(pos), new)])

NodeAt(body, pos) == GetAt(body[Head(pos)], Tail(pos))
ReplaceInBody(body, pos, new) ==
    [body EXCEPT ![Head(pos)] = ReplaceAt(body[Head(pos)], Tail(pos), new)]

\* the tree with every node equal to `from` standing for `to` (a node edited
\* in place is the same node wherever the tree holds it)
RECURSIVE Substitute(_, _, _)
Substitute(n, from, to) ==
    IF n = from THEN to
    ELSE N(n.type, n.tag, [i \in 1..Len(n.kids) |-> Substitute(n.kids[i], from, to)])

\* the candidate after the in-place edits of the applyOptionalChaining calls
\* among `events`
RECURSIVE EditedInPlace(_, _)
EditedInPlace(n, events) ==
    IF events = <<>> THEN n
    ELSE IF Head(events).call # "apply" THEN EditedInPlace(n, Tail(events))
    ELSE EditedInPlace(
            Substitute(n, Head(events).node,
                       Mutated(Head(events).node, Head(events).tempVariable,
                               Head(events).targetExpression)),
            Tail(events))

IsStrictPrefix(p, q) == Len(p) < Len(q) /\ SubSeq(q, 1, Len(p)) = p

\* root.find(j.X, filter): the matching paths in the visitor's pre-order
RECURSIVE PathsIn(_, _)
RECURSIVE PathsInKids(_, _, _)
PathsIn(n, pos) == <<pos>> \o PathsInKids(n.kids, pos, 1)
PathsInKids(kids, pos, i) ==
    IF i > Len(kids) THEN <<>>
    ELSE PathsIn(kids[i], Append(pos, i)) \o PathsInKids(kids, pos, i + 1)

RECURSIVE PathsInBody(_, _)
PathsInBody(body, i) ==
    IF i > Len(body) THEN <<>>
    ELSE PathsIn(body[i], <<i>>) \o PathsInBody(body, i + 1)

IsLogicalCandidate(n) == IsLogicalExpression(n) /\ n.tag \in {"&&", "||"}

findConditionalExpression(body) ==
    SelectSeq(PathsInBody(body, 1), LAMBDA q : IsConditionalExpression(NodeAt(body, q)))
findLogicalExpression(body) ==
    SelectSeq(PathsInBody(body, 1), LAMBDA q : IsLogicalCandidate(NodeAt(body, q)))

\* references to the variable `name` below a node (a static member's property
\* name is not a reference)
RECURSIVE References(_, _)
RECURSIVE ReferencesInKids(_, _, _)
References(n, name) ==
    IF IsIdentifier(n) THEN (IF n.tag = name THEN 1 ELSE 0)
    ELSE IF IsMemberExpression(n) /\ ~Computed(n) THEN References(Object(n), name)
    ELSE ReferencesInKids(n.kids, 1, name)
ReferencesInKids(kids, i, name) ==
    IF i > Len(kids) THEN 0
    ELSE References(kids[i], name) + ReferencesInKids(kids, i + 1, name)

ReferencesInBody(body, name) == ReferencesInKids(body, 1, name)

\* @wakaru/ast-utils/scope removeDeclarationIfUnused(j, path, id): the
\* declaration goes iff the scope holds no identifier of that name other than
\* the declarator and those below `path`
removeDeclarationIfUnused(decls, body, anchor, name) ==
    LET idsUsedInScope == ReferencesInBody(body, name) + (IF name \in decls THEN 1 ELSE 0)
        idsUsedInPath == References(anchor, name)
    IN  IF idsUsedInScope - idsUsedInPath = 1 THEN decls \ {name} ELSE decls

RemoveAllUnused(decls, body, anchor, names) ==
    {d \in decls : d \notin names \/ removeDeclarationIfUnused(decls, body, anchor, d) = decls}

(***************************************************************************)
(* Input documents.  Each is one candidate built from a guard over a       *)
(* subject (a plain variable or a compiler temporary), a null/undefined or *)
(* ordinary value for the guarded side and an access for the other side,   *)
(* optionally followed by a statement that still reads the temporary.      *)
(***************************************************************************)
void0 == unaryExpression("void", numericLiteral("0"))
Dot(object, name) == memberExpression(object, identifier(name), FALSE)
Assign(name, right) == assignmentExpression("=", identifier(name), right)

Subjects == {"plain", "temp", "tempMember"}
SubjectExpr(s) ==
    CASE s = "plain" -> identifier("a")
      [] s = "temp" -> Assign("t", identifier("a"))
      [] s = "tempMember" -> Assign("t", Dot(identifier("a"), "b"))
SubjectRef(s) == IF s = "plain" THEN identifier("a") ELSE identifier("t")
SubjectDecls(s) == IF s = "plain" THEN {} ELSE {"t"}

GuardKinds ==
    {"loose", "strict", "looseRev", "strictRev", "strictOnly", "strictThenPlain",
     "notLoose", "notStrict", "plain"}
IsNegatedGuard(g) == g \in {"notLoose", "notStrict"}
Guard(g, S, r) ==
    CASE g = "loose" -> binaryExpression("==", S, nullLiteral)
      [] g = "strict" -> logicalExpression("||", binaryExpression("===", S, nullLiteral),
                                                 binaryExpression("===", r, void0))
      [] g = "looseRev" -> binaryExpression("==", nullLiteral, S)
      [] g = "strictRev" -> logicalExpression("||", binaryExpression("===", nullLiteral, S),
                                                    binaryExpression("===", void0, r))
      [] g = "strictOnly" -> binaryExpression("===", S, nullLiteral)
      [] g = "strictThenPlain" -> logicalExpression("||", binaryExpression("===", S, nullLiteral),
                                                          identifier("foo"))
      [] g = "notLoose" -> binaryExpression("!=", S, nullLiteral)
      [] g = "notStrict" -> logicalExpression("&&", binaryExpression("!==", S, nullLiteral),
                                                    binaryExpression("!==", r, void0))
      [] g = "plain" -> identifier("foo")

LeafKinds ==
    {"prop", "prop2", "computedSelf", "delete", "method", "callSelf", "other",
     "nestedConditional", "nestedAnd", "memberOfCall"}
Leaf(l, r) ==
    CASE l = "prop" -> Dot(r, "b")
      [] l = "prop2" -> Dot(Dot(r, "b"), "c")
      [] l = "computedSelf" -> memberExpression(r, Dot(r, "c"), TRUE)
      [] l = "delete" -> unaryExpression("delete", Dot(r, "b"))
      [] l = "method" -> callExpression(Dot(Dot(r, "f"), "call"), <<r, identifier("y")>>)
      [] l = "callSelf" -> callExpression(Dot(r, "call"), <<identifier("y")>>)
      [] l = "other" -> identifier("c")
      [] l = "memberOfCall" -> Dot(callExpression(identifier("f"), <<r>>), "b")
      [] l = "nestedConditional" ->
            conditionalExpression(binaryExpression("==", Dot(r, "b"), nullLiteral),
                                  void0, Dot(Dot(r, "b"), "c"))
      [] l = "nestedAnd" ->
            logicalExpression("&&", binaryExpression("!=", Dot(r, "b"), nullLiteral),
                                    Dot(Dot(r, "b"), "c"))

FalsyKinds == {"void0", "null", "other"}
Falsy(f) ==
    CASE f = "void0" -> void0
      [] f = "null" -> nullLiteral
      [] f = "other" -> identifier("d")

Document(decls, body) == [decls |-> decls, body |-> body]

ConditionalCandidate(s, g, l, f) ==
    IF IsNegatedGuard(g)
    THEN conditionalExpression(Guard(g, SubjectExpr(s), SubjectRef(s)),
                               Leaf(l, SubjectRef(s)), Falsy(f))
    ELSE conditionalExpression(Guard(g, SubjectExpr(s), SubjectRef(s)),
                               Falsy(f), Leaf(l, SubjectRef(s)))

LogicalCandidate(s, g, l) ==
    logicalExpression(IF IsNegatedGuard(g) THEN "&&" ELSE "||",
                      Guard(g, SubjectExpr(s), SubjectRef(s)), Leaf(l, SubjectRef(s)))

\* a later statement that still reads the temporary
Elsewhere(s, e) == IF e /\ s # "plain" THEN <<identifier("t")>> ELSE <<>>

\* a chain of strict not-null / not-undefined guard pairs over a growing
\* member path a, a.b, a.b.c ..., as a conditional and as an `&&` expression
MaxChain == 2
ChainProps == <<"b", "c", "d", "e">>

RECURSIVE MemberPath(_)
MemberPath(k) ==
    IF k = 0 THEN identifier("a") ELSE Dot(MemberPath(k - 1), ChainProps[k])

RECURSIVE OptionalPath(_)
OptionalPath(k) ==
    IF k = 0 THEN identifier("a")
    ELSE optionalMemberExpression(OptionalPath(k - 1), identifier(ChainProps[k]), FALSE)

NotNull(e) == binaryExpression("!==", e, nullLiteral)
NotUndefined(e) == binaryExpression("!==", e, identifier("undefined"))

RECURSIVE GuardChain(_)
GuardChain(n) ==
    IF n = 1 THEN logicalExpression("&&", NotNull(MemberPath(0)), NotUndefined(MemberPath(0)))
    ELSE logicalExpression("&&",
            logicalExpression("&&", GuardChain(n - 1), NotNull(MemberPath(n - 1))),
            NotUndefined(MemberPath(n - 1)))

StrictChainConditional(n) ==
    conditionalExpression(GuardChain(n), MemberPath(n), identifier("undefined"))
StrictChainLogical(n) == logicalExpression("&&", GuardChain(n), MemberPath(n))

ChainDocuments ==
    {Document({}, <<StrictChainConditional(n)>>) : n \in 1..MaxChain}
    \cup {Document({}, <<StrictChainLogical(n)>>) : n \in 1..MaxChain}

Documents ==
    ChainDocuments \cup
    {Document(SubjectDecls(s), <<ConditionalCandidate(s, g, l, f)>> \o Elsewhere(s, e)) :
        s \in Subjects, g \in GuardKinds, l \in LeafKinds, f \in FalsyKinds, e \in BOOLEAN}
    \cup
    {Document(SubjectDecls(s), <<LogicalCandidate(s, g, l)>> \o Elsewhere(s, e)) :
        s \in Subjects, g \in GuardKinds, l \in LeafKinds, e \in BOOLEAN}

(***************************************************************************)
(* Inputs of the analyzer: the desugared form of  r?.p1?. ... ?.pN ?? "game" *)
(*   null !== (t = <guards> ? void 0 : <last temporary>.pN) && void 0 !== t *)
(*       ? t : "game"                                                      *)
(* with the temporaries n1 = r.p1, n2 = n1.p2 ... and one deviation from   *)
(* the shape at a time.                                                    *)
(***************************************************************************)
MaxProps == 3
PropNames == <<"p1", "p2", "p3", "p4">>
TempNames == <<"n1", "n2", "n3", "n4">>
Fallback == stringLiteral("game")

\* the object the i-th property is read from: the root, then the temporaries
Holder(i) == IF i = 1 THEN identifier("r") ELSE identifier(TempNames[i - 1])

\* the null test of `e`, with null on the left or on the right
NullTest(op, e, nullFirst) ==
    IF nullFirst THEN binaryExpression(op, nullLiteral, e)
    ELSE binaryExpression(op, e, nullLiteral)
UndefinedTest(op, e, nullFirst) ==
    IF nullFirst THEN binaryExpression(op, void0, e)
    ELSE binaryExpression(op, e, void0)

\* the guards of one link: loose `null == e`, or the strict pair
\* `null === e`, `void 0 === <name>`
LinkGuards(strict, e, name, nullFirst) ==
    IF strict
    THEN <<NullTest("===", e, nullFirst), UndefinedTest("===", identifier(name), nullFirst)>>
    ELSE <<NullTest("==", e, nullFirst)>>

\* the guards of the root and of the temporaries n1 .. n(N-1)
RECURSIVE ChainGuards(_, _, _)
ChainGuards(n, strict, nullFirst) ==
    IF n = 1 THEN LinkGuards(FALSE, identifier("r"), "r", nullFirst)
    ELSE ChainGuards(n - 1, strict, nullFirst)
           \o LinkGuards(strict,
                         Assign(TempNames[n - 1], Dot(Holder(n - 1), PropNames[n - 1])),
                         TempNames[n - 1], nullFirst)

\* g1 || g2 || ... as the parser builds it (left-nested) or right-nested
RECURSIVE OrLeft(_)
OrLeft(gs) ==
    IF Len(gs) = 1 THEN gs[1]
    ELSE logicalExpression("||", OrLeft(SubSeq(gs, 1, Len(gs) - 1)), gs[Len(gs)])
RECURSIVE OrRight(_)
OrRight(gs) ==
    IF Len(gs) = 1 THEN gs[1]
    ELSE logicalExpression("||", gs[1], OrRight(Tail(gs)))

Deviations ==
    {"none", "test-operator", "left-conjunct-operator", "left-conjunct-order",
     "no-assignment", "right-conjunct", "right-conjunct-name", "consequent",
     "no-nested-conditional", "nested-consequent", "nested-alternate",
     "self-parent", "mutual-parents"}

\* guards whose temporaries are assigned from a member of themselves:
\* `null == r || null == (n1 = n1.p1)`, and
\* `null == (n1 = n2.p1) || null == (n2 = n1.p2)`
CyclicGuards(strict, nullFirst, dev) ==
    IF dev = "self-parent"
    THEN LinkGuards(FALSE, identifier("r"), "r", nullFirst)
           \o LinkGuards(strict, Assign("n1", Dot(identifier("n1"), "p1")), "n1", nullFirst)
    ELSE LinkGuards(strict, Assign("n1", Dot(identifier("n2"), "p1")), "n1", nullFirst)
           \o LinkGuards(strict, Assign("n2", Dot(identifier("n1"), "p2")), "n2", nullFirst)

\* the guards and the final access of the nested conditional
GuardsOf(n, strict, nullFirst, dev) ==
    IF dev \in {"self-parent", "mutual-parents"} THEN CyclicGuards(strict, nullFirst, dev)
    ELSE ChainGuards(n, strict, nullFirst)
FinalAccess(n, dev) ==
    CASE dev = "nested-alternate" -> Holder(n)
      [] dev = "self-parent" -> Dot(identifier("n1"), "p2")
      [] dev = "mutual-parents" -> Dot(identifier("n2"), "p3")
      [] OTHER -> Dot(Holder(n), PropNames[n])

NestedConditional(n, strict, nullFirst, leftNested, dev) ==
    conditionalExpression(
        IF leftNested THEN OrLeft(GuardsOf(n, strict, nullFirst, dev))
        ELSE OrRight(GuardsOf(n, strict, nullFirst, dev)),
        IF dev = "nested-consequent" THEN nullLiteral ELSE void0,
        FinalAccess(n, dev))

AnalyzerInput(n, strict, nullFirst, leftNested, mainOp, dev) ==
    LET assigned == IF dev = "no-nested-conditional" THEN Dot(Holder(1), PropNames[1])
                    ELSE NestedConditional(n, strict, nullFirst, leftNested, dev)
        leftConjunct ==
            IF dev = "no-assignment" THEN binaryExpression(mainOp, nullLiteral, identifier("t"))
            ELSE IF dev = "left-conjunct-order"
            THEN binaryExpression(mainOp, Assign("t", assigned), nullLiteral)
            ELSE binaryExpression(IF dev = "left-conjunct-operator" THEN "===" ELSE mainOp,
                                  nullLiteral, Assign("t", assigned))
        rightConjunct ==
            IF dev = "right-conjunct" THEN identifier("foo")
            ELSE IF dev = "right-conjunct-name"
            THEN binaryExpression(mainOp, void0, identifier("u"))
            ELSE binaryExpression(mainOp, void0, identifier("t"))
    IN  conditionalExpression(
            logicalExpression(IF dev = "test-operator" THEN "||" ELSE "&&",
                              leftConjunct, rightConjunct),
            IF dev = "consequent" THEN identifier("u") ELSE identifier("t"),
            Fallback)

MainOperators == {"!==", "!="}

AnalyzerDecls(n, dev) ==
    IF dev \in {"self-parent", "mutual-parents"} THEN {"t", "n1", "n2"}
    ELSE {"t"} \cup {TempNames[i] : i \in 1..(n - 1)}

AnalyzerDocuments ==
    {Document(AnalyzerDecls(n, dev),
              <<AnalyzerInput(n, strict, nullFirst, leftNested, mainOp, dev)>>) :
        n \in 1..MaxProps, strict \in BOOLEAN, nullFirst \in BOOLEAN,
        leftNested \in BOOLEAN, mainOp \in MainOperators, dev \in Deviations}

(***************************************************************************)
(* Inputs of the Expression Rewriter taken alone: `.call` / `.apply` /     *)
(* `.bind` sites in the three callee shapes the function distinguishes,    *)
(* with the token and target pairs constructOptionalChaining passes: the   *)
(* two sides of a folded assignment (lines 117-121, 146-150), or the       *)
(* compared identifier / member with no target (lines 158-162, 172, 178).  *)
(***************************************************************************)
RewriterTokens ==
    {[tempVariable |-> identifier("t"), targetExpression |-> identifier("a")],
     [tempVariable |-> identifier("t"), targetExpression |-> Dot(identifier("a"), "f")],
     [tempVariable |-> identifier("a"), targetExpression |-> NoNode],
     [tempVariable |-> Dot(identifier("a"), "f"), targetExpression |-> NoNode]}

CalleeShapes == {"member-of-token", "member-of-other", "token"}
CalleeObject(shape, tempVariable) ==
    CASE shape = "member-of-token" -> Dot(tempVariable, "m")
      [] shape = "member-of-other" -> Dot(identifier("c"), "m")
      [] shape = "token" -> tempVariable

FirstArguments == {"token", "other"}
FirstArgument(x, tempVariable) == IF x = "token" THEN tempVariable ELSE identifier("d")

\* the arguments after the first of a `.call` site
RestArguments(tempVariable) ==
    {<<>>, <<identifier("y")>>, <<identifier("y"), identifier("z")>>,
     <<identifier("y"), spreadElement(identifier("z"))>>,
     <<Dot(tempVariable, "x"), identifier("y")>>}

\* what follows the first argument of an `.apply` site
ApplyArguments ==
    {<<>>, <<spreadElement(identifier("z"))>>, <<identifier("args")>>,
     <<arrayExpression(<<>>)>>,
     <<arrayExpression(<<identifier("y"), identifier("z")>>)>>,
     <<arrayExpression(<<identifier("y"), NoNode, spreadElement(identifier("z"))>>)>>}

MethodSite(method, shape, x, rest, tempVariable) ==
    callExpression(Dot(CalleeObject(shape, tempVariable), method),
                   <<FirstArgument(x, tempVariable)>> \o rest)

RewriterInputs ==
    {[node |-> MethodSite(method, shape, x, rest, tk.tempVariable),
      tempVariable |-> tk.tempVariable, targetExpression |-> tk.targetExpression] :
        method \in {"call", "bind"}, shape \in CalleeShapes, x \in FirstArguments,
        rest \in UNION {RestArguments(k.tempVariable) : k \in RewriterTokens},
        tk \in RewriterTokens}
    \cup
    {[node |-> MethodSite("apply", shape, x, rest, tk.tempVariable),
      tempVariable |-> tk.tempVariable, targetExpression |-> tk.targetExpression] :
        shape \in CalleeShapes, x \in FirstArguments, rest \in ApplyArguments,
        tk \in RewriterTokens}

(***************************************************************************)
(* transformAST as a state machine.                                        *)
(*   doc         the document                                              *)
(*   pc          "enter", "loop" (at `while (passes--)`), "conditional" /  *)
(*               "logical" (inside the forEach of that sweep), "done",     *)
(*               "threw" (an exception left transformAST)                  *)
(*   passes      the counter of line 37                                    *)
(*   pending     the paths the running forEach has still to visit; a path  *)
(*               whose ancestor was replaced meanwhile carries the         *)
(*               detached node it still points to                          *)
(*   visited     the Set of line 35                                        *)
(*   transformed the module-level flag of line 24                          *)
(*   invocation  which call of transformAST on this document is running    *)
(*   last        what the most recent attempt did (history)                *)
(*   log         the attempts of this invocation, in order (history)       *)
(*   firstRun    the document the first invocation left (history)          *)
(***************************************************************************)
VARIABLES doc, pc, passes, pending, visited, transformed, invocation, last, log, firstRun

vars == <<doc, pc, passes, pending, visited, transformed, invocation, last, log, firstRun>>

MaxPasses == 5
MaxInvocations == 2

NoAttempt ==
    [kind |-> "none", pos |-> <<>>, orig |-> NoNode, result |-> NoNode,
     transformed |-> FALSE, substituted |-> FALSE, cleaned |-> {}, declsBefore |-> {},
     exit |-> "", negated |-> FALSE, pass |-> 0, events |-> <<>>]

Attempt(kind, pos, orig, r, declsBefore) ==
    [kind |-> kind, pos |-> pos, orig |-> orig, result |-> r.result,
     transformed |-> r.transformed, substituted |-> r.substituted, cleaned |-> r.cleaned,
     declsBefore |-> declsBefore, exit |-> r.exit, negated |-> r.negated,
     pass |-> MaxPasses - passes,
     events |-> r.events \o (IF r.result # NoNode
                              THEN <<Call("replace", r.result, NoNode, NoNode)>>
                              ELSE <<>>)]

Live(pos) == [pos |-> pos, detached |-> NoNode]
LiveEntries(paths) == [i \in 1..Len(paths) |-> Live(paths[i])]

Init ==
    /\ doc \in Documents
    /\ pc = "enter"
    /\ passes = 0
    /\ pending = <<>>
    /\ visited = {}
    /\ transformed = FALSE
    /\ invocation = 1
    /\ last = NoAttempt
    /\ log = <<>>
    /\ firstRun = Document({}, <<>>)

\* lines 35-37
Enter ==
    /\ pc = "enter"
    /\ visited' = {}
    /\ passes' = MaxPasses
    /\ pc' = "loop"
    /\ UNCHANGED <<doc, pending, transformed, invocation, last, log, firstRun>>

\* the loop head without the decrement of `passes--`
BeginPassNoDecrement ==
    /\ pc = "loop"
    /\ passes > 0
    /\ pending' = LiveEntries(findConditionalExpression(doc.body))
    /\ pc' = "conditional"
    /\ UNCHANGED <<doc, passes, visited, transformed, invocation, last, log, firstRun>>

\* line 38 with passes > 0, lines 39-40: the conditional sweep takes its paths
BeginPass ==
    /\ pc = "loop"
    /\ passes > 0
    /\ passes' = passes - 1
    /\ pending' = LiveEntries(findConditionalExpression(doc.body))
    /\ pc' = "conditional"
    /\ UNCHANGED <<doc, visited, transformed, invocation, last, log, firstRun>>

\* line 38 with passes = 0: the loop ends
ExitLoop ==
    /\ pc = "loop"
    /\ passes = 0
    /\ passes' = passes - 1
    /\ pc' = "done"
    /\ UNCHANGED <<doc, pending, visited, transformed, invocation, last, log, firstRun>>

\* lines 51-52: the logical sweep takes its paths
BeginLogicalSweep ==
    /\ pc = "conditional"
    /\ pending = <<>>
    /\ pending' = LiveEntries(findLogicalExpression(doc.body))
    /\ pc' = "logical"
    /\ UNCHANGED <<doc, passes, visited, transformed, invocation, last, log, firstRun>>

\* line 62: back to the loop head
EndPass ==
    /\ pc = "logical"
    /\ pending = <<>>
    /\ pc' = "loop"
    /\ UNCHANGED <<doc, passes, pending, visited, transformed, invocation, last, log, firstRun>>

InSweep == pc \in {"conditional", "logical"} /\ pending # <<>>

\* lines 42 / 54: `if (visited.has(path)) return`
SkipVisited ==
    /\ InSweep
    /\ Head(pending).detached = NoNode
    /\ Head(pending).pos \in visited
    /\ pending' = Tail(pending)
    /\ UNCHANGED <<doc, pc, passes, visited, transformed, invocation, last, log, firstRun>>

\* the paths still pending below a replaced node: path.replace drops the
\* child cache, so they keep pointing into the detached subtree; those already
\* in `visited` will be skipped
DetachBelow(entries, pos, body) ==
    LET kept == SelectSeq(entries,
                   LAMBDA e : ~(e.detached = NoNode /\ IsStrictPrefix(pos, e.pos)
                                  /\ e.pos \in visited))
    IN  [i \in 1..Len(kept) |->
            IF kept[i].detached = NoNode /\ IsStrictPrefix(pos, kept[i].pos)
            THEN [pos |-> kept[i].pos, detached |-> NodeAt(body, kept[i].pos)]
            ELSE kept[i]]

\* lines 43-48 / 55-60 on a path of the document; `r` is what
\* convertOptionalChaining did, `decls` the declarations its cleanup left
LiveOutcome(r) ==
    IF r.threw THEN "threw" ELSE IF r.result # NoNode THEN "replaced" ELSE "rejected"

AttemptLiveWith(outcome, pos, node, r, decls) ==
    /\ outcome = LiveOutcome(r)
    /\ transformed' = r.transformed
    /\ last' = Attempt(outcome, pos, node, r, doc.decls)
    /\ log' = Append(log, [pos |-> pos, pass |-> MaxPasses - passes,
                           replaced |-> outcome = "replaced"])
    /\ IF outcome = "threw"
       THEN /\ doc' = Document(decls, doc.body)
            /\ pc' = "threw"
            /\ visited' = visited \cup {pos}
            /\ pending' = <<>>
       ELSE IF outcome = "replaced"
       THEN /\ doc' = Document(decls, ReplaceInBody(doc.body, pos, r.result))
            /\ visited' = (visited \cup {pos}) \ {q \in visited : IsStrictPrefix(pos, q)}
            /\ pending' = DetachBelow(Tail(pending), pos, doc.body)
            /\ pc' = pc
       ELSE /\ doc' = Document(decls,
                               ReplaceInBody(doc.body, pos, EditedInPlace(node, r.events)))
            /\ visited' = visited \cup {pos}
            /\ pending' = Tail(pending)
            /\ pc' = pc
    /\ UNCHANGED <<passes, invocation, firstRun>>

Cleanup(node, r) == RemoveAllUnused(doc.decls, doc.body, node, r.cleaned)

AttemptLiveOn(outcome, pos, node, r) ==
    AttemptLiveWith(outcome, pos, node, r, Cleanup(node, r))

AtLiveCandidate ==
    /\ InSweep
    /\ Head(pending).detached = NoNode
    /\ Head(pending).pos \notin visited

\* the attempt returns a replacement: path.replace(result)
AttemptReplaces ==
    /\ AtLiveCandidate
    /\ \E r \in {convertOptionalChaining(NodeAt(doc.body, Head(pending).pos))} :
          AttemptLiveOn("replaced", Head(pending).pos, NodeAt(doc.body, Head(pending).pos), r)

\* the attempt returns null: the candidate stays
AttemptRejects ==
    /\ AtLiveCandidate
    /\ \E r \in {convertOptionalChaining(NodeAt(doc.body, Head(pending).pos))} :
          AttemptLiveOn("rejected", Head(pending).pos, NodeAt(doc.body, Head(pending).pos), r)

\* a builder throws inside the attempt: the exception leaves transformAST
AttemptThrows ==
    /\ AtLiveCandidate
    /\ \E r \in {convertOptionalChaining(NodeAt(doc.body, Head(pending).pos))} :
          AttemptLiveOn("threw", Head(pending).pos, NodeAt(doc.body, Head(pending).pos), r)

\* lines 43-48 / 55-60 on a path whose ancestor was replaced earlier in this
\* sweep: the attempt works on the detached subtree, its path.replace does not
\* reach the document, its removeDeclarationIfUnused calls do
AttemptDetachedOn(node, r) ==
    /\ transformed' = r.transformed
    /\ doc' = Document(Cleanup(node, r), doc.body)
    /\ last' = Attempt("detached", Head(pending).pos, node, r, doc.decls)
    /\ IF r.threw THEN pc' = "threw" /\ pending' = <<>>
       ELSE pc' = pc /\ pending' = Tail(pending)
    /\ UNCHANGED <<passes, visited, invocation, log, firstRun>>

AttemptDetached ==
    /\ InSweep
    /\ Head(pending).detached # NoNode
    /\ \E r \in {convertOptionalChaining(Head(pending).detached)} :
          AttemptDetachedOn(Head(pending).detached, r)

\* the caller runs the transformation again on the document it got back
Reinvoke ==
    /\ pc = "done"
    /\ invocation < MaxInvocations
    /\ invocation' = invocation + 1
    /\ firstRun' = IF invocation = 1 THEN doc ELSE firstRun
    /\ pc' = "enter"
    /\ log' = <<>>
    /\ last' = NoAttempt
    /\ UNCHANGED <<doc, passes, pending, visited, transformed>>

Next ==
    \/ Enter
    \/ BeginPass
    \/ ExitLoop
    \/ BeginLogicalSweep
    \/ EndPass
    \/ SkipVisited
    \/ AttemptReplaces
    \/ AttemptRejects
    \/ AttemptThrows
    \/ AttemptDetached
    \/ Reinvoke

Spec == Init /\ [][Next]_vars

(***************************************************************************)
(* The analyzer as a state machine: a caller hands analyzeOptionalChain the *)
(* path of the document's conditional, with or without cleanup.  `last`    *)
(* records the call: the node, the returned expression (NoNode for null),  *)
(* the check that rejected it and the declarations before the call.        *)
(***************************************************************************)
InitAnalyzer ==
    /\ doc \in AnalyzerDocuments
    /\ pc = "analyzer"
    /\ passes = 0
    /\ pending = <<>>
    /\ visited = {}
    /\ transformed = FALSE
    /\ invocation = 1
    /\ last = NoAttempt
    /\ log = <<>>
    /\ firstRun = Document({}, <<>>)

Analysis(node, r, cleanUpVariables, declsBefore) ==
    [kind |-> "analysis", pos |-> <<1>>, orig |-> node, result |-> r.result,
     exit |-> r.exit, cleaned |-> IF cleanUpVariables THEN r.cleaned ELSE {},
     diverged |-> r.diverged, cleanUpVariables |-> cleanUpVariables,
     declsBefore |-> declsBefore]

\* lines 418-477 with the cleanup of lines 472-474 and 649-658
AnalyzeOn(node, r, cleanUpVariables) ==
    /\ last' = Analysis(node, r, cleanUpVariables, doc.decls)
    /\ doc' = Document(IF cleanUpVariables /\ r.result # NoNode
                       THEN RemoveAllUnused(doc.decls, doc.body, node, r.cleaned)
                       ELSE doc.decls,
                       doc.body)
    /\ pc' = IF r.diverged THEN "diverged" ELSE "analyzed"
    /\ UNCHANGED <<passes, pending, visited, transformed, invocation, log, firstRun>>

\* the call returns the `??` expression
AnalyzeMatches ==
    /\ pc = "analyzer"
    /\ \E r \in {analyzeOptionalChain(NodeAt(doc.body, <<1>>))} :
          /\ r.result # NoNode
          /\ \E cleanUpVariables \in BOOLEAN :
                AnalyzeOn(NodeAt(doc.body, <<1>>), r, cleanUpVariables)

\* the call returns null
AnalyzeRejects ==
    /\ pc = "analyzer"
    /\ \E r \in {analyzeOptionalChain(NodeAt(doc.body, <<1>>))} :
          /\ r.result = NoNode /\ ~r.diverged
          /\ \E cleanUpVariables \in BOOLEAN :
                AnalyzeOn(NodeAt(doc.body, <<1>>), r, cleanUpVariables)

\* the trace-back loop of lines 607-618 does not end: the call never returns
AnalyzeDiverges ==
    /\ pc = "analyzer"
    /\ \E r \in {analyzeOptionalChain(NodeAt(doc.body, <<1>>))} :
          /\ r.diverged
          /\ \E cleanUpVariables \in BOOLEAN :
                AnalyzeOn(NodeAt(doc.body, <<1>>), r, cleanUpVariables)

NextAnalyzer == AnalyzeMatches \/ AnalyzeRejects \/ AnalyzeDiverges

SpecAnalyzer == InitAnalyzer /\ [][NextAnalyzer]_vars

(***************************************************************************)
(* The Expression Rewriter as a state machine: constructOptionalChaining   *)
(* calls applyOptionalChaining on a node with a token and a target.        *)
(* `pending` holds the call's arguments, `last` records the call: the      *)
(* node, the token, the target, the returned node (NoNode when a builder   *)
(* threw) and whether the call set the flag.                               *)
(***************************************************************************)
InitRewriter ==
    /\ pending \in {<<in>> : in \in RewriterInputs}
    /\ doc = Document({}, <<>>)
    /\ pc = "rewriter"
    /\ passes = 0
    /\ visited = {}
    /\ transformed = FALSE
    /\ invocation = 1
    /\ last = NoAttempt
    /\ log = <<>>
    /\ firstRun = Document({}, <<>>)

Rewriting(in, r) ==
    [kind |-> "rewriting", pos |-> <<>>, orig |-> in.node, result |-> r.node,
     tempVariable |-> in.tempVariable, targetExpression |-> in.targetExpression,
     transformed |-> r.transformed, threw |-> r.threw]

RewriteOn(in, r) ==
    /\ last' = Rewriting(in, r)
    /\ transformed' = (transformed \/ r.transformed)
    /\ pending' = <<>>
    /\ pc' = IF r.threw THEN "threw" ELSE "rewritten"
    /\ UNCHANGED <<doc, passes, visited, invocation, log, firstRun>>

AtRewriterCall == pc = "rewriter" /\ pending # <<>>

RewriterCall ==
    applyOptionalChaining(Head(pending).node, Head(pending).tempVariable,
                          Head(pending).targetExpression)

\* the call returns having set `transformed`
RewriteSetsFlag ==
    /\ AtRewriterCall
    /\ \E r \in {RewriterCall} :
          /\ ~r.threw /\ r.transformed
          /\ RewriteOn(Head(pending), r)

\* the call returns without setting `transformed`
RewriteLeavesFlag ==
    /\ AtRewriterCall
    /\ \E r \in {RewriterCall} :
          /\ ~r.threw /\ ~r.transformed
          /\ RewriteOn(Head(pending), r)

\* an AST builder throws inside the call
RewriteThrows ==
    /\ AtRewriterCall
    /\ \E r \in {RewriterCall} :
          /\ r.threw
          /\ RewriteOn(Head(pending), r)

NextRewriter == RewriteSetsFlag \/ RewriteLeavesFlag \/ RewriteThrows

SpecRewriter == InitRewriter /\ [][NextRewriter]_vars

(***************************************************************************)
(* Properties.  `last` is the most recent attempt: the candidate it was    *)
(* made on (`orig`), what convertOptionalChaining returned (`result`) and  *)
(* the flag at its end.                                                    *)
(***************************************************************************)
Attempted == last.kind # "none"

Candidates(body) == findConditionalExpression(body) \o findLogicalExpression(body)

\* some candidate of the document would still be rewritten if it were attempted
NotConverged ==
    \E i \in 1..Len(Candidates(doc.body)) :
        convertOptionalChaining(NodeAt(doc.body, Candidates(doc.body)[i])).result # NoNode

(***************************************************************************)
(* What an expression evaluates to (ECMAScript semantics of the printed    *)
(* expression), for the equivalence of a candidate and its replacement.    *)
(* A value is [k, id, d]: its kind, for an object the access path it was   *)
(* reached by, and the depth of that path.  A binding gives the kind of    *)
(* the variables `a` and `foo` and of the properties read at depth 1 and   *)
(* below.  An evaluation ends "ok", in a "throw" (a TypeError) or, inside  *)
(* an optional chain, in a "short" circuit that the chain's top turns into *)
(* undefined.                                                              *)
(***************************************************************************)
BindingKinds == {"null", "undefined", "zero", "object"}
Bindings == [a : BindingKinds, foo : BindingKinds, prop1 : BindingKinds, prop2 : BindingKinds]

Value(k, id, d) == [k |-> k, id |-> id, d |-> d]
Primitive(k) == Value(k, "", 0)
Bound(k, id, d) == IF k = "object" THEN Value(k, id, d) ELSE Primitive(k)
Nullish(v) == v.k \in {"null", "undefined"}
Truthy(v) == v.k \in {"true", "string", "object", "call"}
Boolean(x) == IF x THEN Primitive("true") ELSE Primitive("false")
KeyOf(v) == IF v.k \in {"object", "string", "call"} THEN v.k \o ":" \o v.id ELSE v.k

InitialEnv(b) ==
    [n \in {"a", "foo", "c", "d", "y", "t"} |->
        CASE n = "a" -> Bound(b.a, "a", 0)
          [] n = "foo" -> Bound(b.foo, "foo", 0)
          [] n = "t" -> Primitive("undefined")
          [] OTHER -> Value("object", n, 0)]

Outcome(v, env, st, this) == [v |-> v, env |-> env, st |-> st, this |-> this]
Done(v, env) == Outcome(v, env, "ok", Primitive("undefined"))

\* [[Get]] of property `key` on a non-nullish value
GetProperty(o, key, b) ==
    IF o.k # "object" THEN Primitive("undefined")
    ELSE IF key = ".call" THEN Value("call", o.id, o.d)
    ELSE Bound(IF o.d = 0 THEN b.prop1 ELSE b.prop2, o.id \o key, o.d + 1)

LooseEquals(x, y) == IF Nullish(x) \/ Nullish(y) THEN Nullish(x) /\ Nullish(y) ELSE x = y

RECURSIVE JoinKeys(_)
JoinKeys(vs) == IF vs = <<>> THEN "" ELSE KeyOf(Head(vs)) \o "," \o JoinKeys(Tail(vs))

\* the value of a call: the function, its `this` and its arguments identify it
Called(f, this, args) ==
    Value("object", f \o "(" \o KeyOf(this) \o ";" \o JoinKeys(args) \o ")", 1)

IsChainElement(n) ==
    n.type \in {"MemberExpression", "OptionalMemberExpression",
                "CallExpression", "OptionalCallExpression"}

RECURSIVE EvalRaw(_, _, _)
RECURSIVE EvalArguments(_, _, _)

Eval(e, env, b) ==
    LET r == EvalRaw(e, env, b)
    IN  IF r.st = "short" THEN Done(Primitive("undefined"), r.env) ELSE r

EvalArguments(args, env, b) ==
    IF args = <<>> THEN [vs |-> <<>>, env |-> env, st |-> "ok"]
    ELSE LET h == Eval(IF IsSpreadElement(Head(args)) THEN Argument(Head(args)) ELSE Head(args),
                       env, b)
             t == EvalArguments(Tail(args), h.env, b)
         IN  IF h.st = "throw" THEN [vs |-> <<>>, env |-> h.env, st |-> "throw"]
             ELSE [vs |-> <<h.v>> \o t.vs, env |-> t.env, st |-> t.st]

EvalMember(e, env, b) ==
    LET o == EvalRaw(Object(e), env, b)
        k == IF Computed(e) THEN Eval(Property(e), o.env, b) ELSE Done(Primitive("undefined"), o.env)
        key == IF Computed(e) THEN "[" \o KeyOf(k.v) \o "]" ELSE "." \o Property(e).tag
    IN  IF o.st # "ok" THEN o
        ELSE IF IsOptionalMemberExpression(e) /\ Nullish(o.v)
        THEN Outcome(Primitive("undefined"), o.env, "short", o.v)
        ELSE IF k.st = "throw" THEN k
        ELSE IF Nullish(o.v) THEN Outcome(Primitive("undefined"), k.env, "throw", o.v)
        ELSE Outcome(GetProperty(o.v, key, b), k.env, "ok", o.v)

EvalCall(e, env, b) ==
    LET c == EvalRaw(Callee(e), env, b)
        args == EvalArguments(Arguments(e), c.env, b)
    IN  IF c.st # "ok" THEN c
        ELSE IF IsOptionalCallExpression(e) /\ Nullish(c.v)
        THEN Outcome(Primitive("undefined"), c.env, "short", c.v)
        ELSE IF args.st = "throw" THEN Outcome(Primitive("undefined"), args.env, "throw", c.v)
        ELSE IF c.v.k = "call"
        THEN Done(Called(c.v.id,
                         IF args.vs = <<>> THEN Primitive("undefined") ELSE Head(args.vs),
                         IF args.vs = <<>> THEN <<>> ELSE Tail(args.vs)), args.env)
        ELSE IF c.v.k = "object"
        THEN Done(Called(c.v.id,
                         IF IsChainElement(Callee(e)) /\ ~IsCallExpression(Callee(e))
                         THEN c.this ELSE Primitive("undefined"),
                         args.vs), args.env)
        ELSE Outcome(Primitive("undefined"), args.env, "throw", c.v)

EvalUnary(e, env, b) ==
    LET r == EvalRaw(Argument(e), env, b)
    IN  IF r.st = "throw" THEN r
        ELSE IF e.tag = "delete" THEN Done(Primitive("true"), r.env)
        ELSE IF e.tag = "void" THEN Done(Primitive("undefined"), r.env)
        ELSE Done(Boolean(~Truthy(IF r.st = "short" THEN Primitive("undefined") ELSE r.v)), r.env)

EvalBinary(e, env, b) ==
    LET l == Eval(Left(e), env, b)
        r == Eval(Right(e), l.env, b)
    IN  IF l.st = "throw" THEN l
        ELSE IF r.st = "throw" THEN r
        ELSE Done(CASE e.tag = "==" -> Boolean(LooseEquals(l.v, r.v))
                    [] e.tag = "!=" -> Boolean(~LooseEquals(l.v, r.v))
                    [] e.tag = "===" -> Boolean(l.v = r.v)
                    [] e.tag = "!==" -> Boolean(l.v # r.v), r.env)

EvalLogical(e, env, b) ==
    LET l == Eval(Left(e), env, b)
        takesRight == CASE e.tag = "&&" -> Truthy(l.v)
                        [] e.tag = "||" -> ~Truthy(l.v)
                        [] e.tag = "??" -> Nullish(l.v)
    IN  IF l.st = "throw" \/ ~takesRight THEN l ELSE Eval(Right(e), l.env, b)

EvalConditional(e, env, b) ==
    LET t == Eval(Test(e), env, b)
    IN  IF t.st = "throw" THEN t
        ELSE IF Truthy(t.v) THEN Eval(Consequent(e), t.env, b)
        ELSE Eval(Alternate(e), t.env, b)

EvalAssignment(e, env, b) ==
    LET r == Eval(Right(e), env, b)
    IN  IF r.st = "throw" THEN r
        ELSE Done(r.v, [n \in DOMAIN r.env \cup {Left(e).tag} |->
                            IF n = Left(e).tag THEN r.v ELSE r.env[n]])

EvalRaw(e, env, b) ==
    CASE IsIdentifier(e) ->
            Done(IF e.tag = "undefined" THEN Primitive("undefined")
                 ELSE IF e.tag \in DOMAIN env THEN env[e.tag]
                 ELSE Value("object", e.tag, 0), env)
      [] IsNullLiteral(e) -> Done(Primitive("null"), env)
      [] e.type = "NumericLiteral" -> Done(Primitive("zero"), env)
      [] e.type = "StringLiteral" -> Done(Value("string", e.tag, 0), env)
      [] e.type = "BooleanLiteral" -> Done(Primitive(e.tag), env)
      [] IsMemberExpression(e) -> EvalMember(e, env, b)
      [] IsCallExpression(e) -> EvalCall(e, env, b)
      [] IsUnaryExpression(e) -> EvalUnary(e, env, b)
      [] IsBinaryExpression(e) -> EvalBinary(e, env, b)
      [] IsLogicalExpression(e) -> EvalLogical(e, env, b)
      [] IsConditionalExpression(e) -> EvalConditional(e, env, b)
      [] IsAssignmentExpression(e) -> EvalAssignment(e, env, b)

\* what the expression statement `e` does under the binding: its value, or
\* that it throws
Evaluates(e, b) ==
    LET r == Eval(e, InitialEnv(b), b)
    IN  IF r.st = "throw" THEN [threw |-> TRUE, v |-> Primitive("undefined")]
        ELSE [threw |-> FALSE, v |-> r.v]

\* C1 (semantic equivalence): whenever an attempt returns a replacement, the
\* replacement evaluates to the same value as the original candidate, or
\* throws like it, under every binding of the variables and properties it
\* reads to null, undefined, a falsy non-nullish value or an object.
C1_SemanticEquivalence ==
    (Attempted /\ last.kind # "analysis" /\ last.result # NoNode) =>
        \A b \in Bindings : Evaluates(last.orig, b) = Evaluates(last.result, b)

\* C2 (idempotence): while transformAST runs a second time on the document its
\* first run left, the document stays the one the first run left: no node is
\* replaced and no declaration is removed.
C2_SecondRunChangesNothing == invocation = 2 => doc = firstRun

\* C3: an attempt on the conditional  a !== null && a !== undefined && a.b !==
\* null && a.b !== undefined ? a.b.c : undefined  (one strict guard pair per
\* prefix of the member path) returns exactly the optional chain a?.b?.c.
C3_StrictGuardChainConditional ==
    \A n \in 1..MaxChain :
        (Attempted /\ last.orig = StrictChainConditional(n)) => last.result = OptionalPath(n)

\* C5: the flag `transformed` is true at the end of an attempt only if some
\* step of the attempt built an optional member access or an optional call,
\* and a replacement is returned only if the flag is true.
C5_FlagOnlyOnSubstitution ==
    Attempted =>
        /\ last.transformed => last.substituted
        /\ last.result # NoNode => last.transformed

IsFalsyLeaf(n) == isNull(n) \/ isUndefined(n)

NegativeCase(e) ==
    /\ IsConditionalExpression(e)
    /\ ~IsFalsyLeaf(Consequent(e))
    /\ ~IsFalsyLeaf(Alternate(e))
    /\ ~(/\ IsUnaryExpression(getDeepestFalseBranch(decisionTree(e)).condition)
         /\ getDeepestFalseBranch(decisionTree(e)).condition.tag = "delete")

C7_CleanupMatchesReferences ==
    last.kind = "replaced" =>
        \A t \in last.cleaned \cap last.declsBefore :
            /\ ReferencesInBody(doc.body, t) = 0 => t \notin doc.decls
            /\ ReferencesInBody(doc.body, t) > 0 => t \in doc.decls

\* C8 (multi-pass absorption): when an invocation ends, every candidate that
\* was attempted without success, and inside which a nested candidate was
\* rewritten afterwards in a pass before the last, has been attempted again
\* in a later pass.
C8_EnclosingAttemptedAgain ==
    pc = "done" =>
        \A i, k \in 1..Len(log) :
            (/\ i < k
             /\ ~log[i].replaced
             /\ log[k].replaced
             /\ IsStrictPrefix(log[i].pos, log[k].pos)
             /\ log[k].pass < MaxPasses)
            => \E m \in 1..Len(log) : log[m].pos = log[i].pos /\ log[m].pass > log[k].pass

\* the position of an invocation in its control flow, in lexicographic order:
\* the invocations still to come, the passes still to start, the place within
\* the pass, the paths the running sweep has still to visit
PcRank ==
    CASE pc = "enter" -> 4
      [] pc = "conditional" -> 3
      [] pc = "logical" -> 2
      [] pc = "loop" -> 1
      [] pc \in {"done", "threw"} -> 0
Variant ==
    <<MaxInvocations - invocation,
      IF pc = "enter" THEN MaxPasses + 1 ELSE passes + 1,
      PcRank,
      Len(pending)>>
LexLess(a, b) ==
    \E i \in 1..Len(a) : a[i] < b[i] /\ \A j \in 1..(i - 1) : a[j] = b[j]

\* C9 (bounded passes): transformAST always terminates: every step of an
\* invocation strictly decreases a well-founded measure and only the end and
\* an exception stop it; it starts at most 5 passes, and from the loop head
\* with the counter at 0 it ends without an exception, converged or not.
C9_BoundedPasses ==
    /\ [][LexLess(Variant', Variant)]_vars
    /\ [](\A i \in 1..4 : Variant[i] \in Nat)
    /\ [](pc \in {"enter", "conditional", "logical", "done", "threw"}
            \/ (pc = "loop" /\ passes \in 0..MaxPasses))
    /\ [](\A i \in 1..Len(log) : log[i].pass \in 1..MaxPasses)
    /\ [][(pc = "loop" /\ passes = 0) => pc' = "done"]_vars

C9_Witness == pc = "done" /\ passes = -1 /\ invocation = 1 /\ NotConverged

Analyzed == last.kind = "analysis"

\* r?.p1?. ... ?.pn
RECURSIVE RootChain(_)
RootChain(n) ==
    IF n = 0 THEN identifier("r")
    ELSE optionalMemberExpression(RootChain(n - 1), identifier(PropNames[n]), FALSE)

\* C4: on the desugared shape over the temporaries n1 = r.p1 .. n(N-1) =
\* n(N-2).p(N-1) with the final access n(N-1).pN, analyzeOptionalChain returns
\* r?.p1?. ... ?.pN ?? fallback: the chain starts at the root, holds every
\* property once in the order of the original accesses, and the right operand
\* of `??` is the original alternate.
C4_ChainFromRoot ==
    \A n \in 1..MaxProps, strict \in BOOLEAN, nullFirst \in BOOLEAN,
       leftNested \in BOOLEAN, mainOp \in MainOperators :
        (Analyzed /\ last.orig = AnalyzerInput(n, strict, nullFirst, leftNested, mainOp, "none"))
            => last.result = logicalExpression("??", RootChain(n), Alternate(last.orig))

C4_Witness ==
    /\ Analyzed
    /\ last.orig = AnalyzerInput(MaxProps, TRUE, TRUE, TRUE, "!==", "none")
    /\ last.result = logicalExpression("??", RootChain(MaxProps), Fallback)

\* the signature  null !== (tmp = cond ? undefined : member) && void 0 !== tmp
\* ? tmp : fallback
IsNotEqual(n) == IsBinaryExpression(n) /\ n.tag \in {"!==", "!="}
HasFullSignature(node) ==
    /\ IsConditionalExpression(node)
    /\ IsLogicalExpression(Test(node)) /\ Test(node).tag = "&&"
    /\ IsNotEqual(Left(Test(node)))
    /\ isNull(Left(Left(Test(node))))
    /\ IsAssignmentExpression(Right(Left(Test(node))))
    /\ IsIdentifier(Left(Right(Left(Test(node)))))
    /\ IsNotEqual(Right(Test(node)))
    /\ isUndefined(Left(Right(Test(node))))
    /\ Right(Right(Test(node))) = Left(Right(Left(Test(node))))
    /\ Consequent(node) = Left(Right(Left(Test(node))))
    /\ IsConditionalExpression(Right(Right(Left(Test(node)))))
    /\ isUndefined(Consequent(Right(Right(Left(Test(node))))))
    /\ IsMemberExpression(Alternate(Right(Right(Left(Test(node))))))

\* C10: analyzeOptionalChain returns an expression only for a node that has
\* the full signature: a not-null test of an assignment to tmp, a
\* not-undefined test of that same tmp, tmp as consequent, and a nested
\* conditional with undefined as consequent and a member expression as
\* alternate.
C10_ShapeExact == (Analyzed /\ last.result # NoNode) => HasFullSignature(last.orig)

Rewritten == last.kind = "rewriting"

\* a call `<callee object>.<method>(...)` with a first argument
IsMethodSite(n, method) ==
    /\ IsCallExpression(n)
    /\ IsMemberExpression(Callee(n))
    /\ Property(Callee(n)) = identifier(method)
    /\ Arguments(n) # <<>>

MentionsToken(n, tempVariable) ==
    \/ n = tempVariable
    \/ \E i \in 1..Len(Descendants(n)) : Descendants(n)[i] = tempVariable

\* `kept` are the arguments `given` in the same order: an argument that is a
\* spread element or does not mention the token is the same node
SameArguments(kept, given, tempVariable) ==
    /\ Len(kept) = Len(given)
    /\ \A i \in 1..Len(given) :
          (IsSpreadElement(given[i]) \/ ~MentionsToken(given[i], tempVariable))
              => kept[i] = given[i]

\* C11 (the `.call` idiom): for a call `obj.m.call(x, ...args)`, when x equals
\* the token the rewriter returns an optional call whose arguments are the
\* original ones without the first, in order, and sets the flag; when x does
\* not equal the token the returned call still has its leading argument.
C11_CallIdiom ==
    (Rewritten /\ IsMethodSite(last.orig, "call")) =>
        IF areNodesEqual(Arguments(last.orig)[1], last.tempVariable)
        THEN IsMemberExpression(Object(Callee(last.orig))) =>
                /\ ~last.threw
                /\ last.transformed
                /\ IsOptionalCallExpression(last.result)
                /\ SameArguments(Arguments(last.result), Tail(Arguments(last.orig)),
                                 last.tempVariable)
        ELSE ~last.threw =>
                /\ IsCallExpression(last.result)
                /\ SameArguments(Arguments(last.result), Arguments(last.orig),
                                 last.tempVariable)

\* the second argument of an `.apply` site (NoNode when there is none)
SecondArgument(n) == IF Len(Arguments(n)) >= 2 THEN Arguments(n)[2] ELSE NoNode

\* the argument list an `.apply` site stands for: the elements of an array
\* literal (a hole is `undefined`), the spread of anything else
Expanded(arg) ==
    IF IsArrayExpression(arg)
    THEN [i \in 1..Len(arg.kids) |->
            IF arg.kids[i] = NoNode THEN identifier("undefined") ELSE arg.kids[i]]
    ELSE <<spreadElement(arg)>>

\* C12 (`.apply` with a spread argument is ineligible): an `.apply` call whose
\* second argument is a spread element is returned as it is, without setting
\* the flag and without an error; every other `.apply(token, arg)` call is
\* rewritten to an optional call whose arguments are the elements of an array
\* literal `arg`, or the spread of a non-array `arg`.
C12_ApplySpreadIneligible ==
    (Rewritten /\ IsMethodSite(last.orig, "apply")) =>
        IF IsSpreadElement(SecondArgument(last.orig))
        THEN ~last.threw /\ ~last.transformed /\ last.result = last.orig
        ELSE (/\ areNodesEqual(Arguments(last.orig)[1], last.tempVariable)
              /\ SecondArgument(last.orig) # NoNode) =>
                /\ ~last.threw
                /\ last.transformed
                /\ IsOptionalCallExpression(last.result)
                /\ SameArguments(Arguments(last.result), Expanded(SecondArgument(last.orig)),
                                 last.tempVariable)

\* a null comparison with the strict operator
IsStrictNullComparison(c) == isNullBinary(c) /\ c.tag = "==="

\* on the false-branch spine of the tree, every strict null comparison is
\* immediately followed by an undefined comparison that has a false branch
RECURSIVE StrictThenUndefined(_)
StrictThenUndefined(tree) ==
    \/ tree.falseBranch = NullTree
    \/ /\ IsStrictNullComparison(tree.condition) =>
            /\ isUndefinedBinary(tree.falseBranch.condition)
            /\ tree.falseBranch.falseBranch # NullTree
       /\ StrictThenUndefined(tree.falseBranch)

RECURSIVE HasStrictNullComparison(_)
HasStrictNullComparison(tree) ==
    /\ tree.falseBranch # NullTree
    /\ \/ IsStrictNullComparison(tree.condition)
       \/ HasStrictNullComparison(tree.falseBranch)

\* `last` is a call of convertOptionalChaining
ConvertAttempt == Attempted /\ last.kind \notin {"analysis", "rewriting"}

\* C13 (the two modes of the Chain Constructor): the descent starts looking
\* for a null comparison; after a strict null comparison it looks for an
\* undefined comparison and gives up on anything else, after a loose one or
\* an undefined one it looks for a null comparison again.  So an attempt that
\* returns a replacement has every strict null comparison of its false-branch
\* spine immediately followed by an undefined comparison; any other attempt
\* returns null.
C13_StrictNullThenUndefined ==
    (ConvertAttempt /\ ~StrictThenUndefined(decisionTree(last.orig))) =>
        last.result = NoNode /\ ~last.transformed

\* a strict pair was followed through and the candidate replaced
C13_Witness ==
    /\ ConvertAttempt
    /\ last.result # NoNode
    /\ HasStrictNullComparison(decisionTree(last.orig))

\* C14 (ordering of cleanup): within one attempt every call of
\* removeDeclarationIfUnused comes after the last applyOptionalChaining call
\* of the attempt and after the candidate was replaced in the document.
C14_CleanupAfterSubstitutions ==
    ConvertAttempt =>
        \A i \in 1..Len(last.events) : \A k \in 1..Len(last.events) :
            (i < k /\ last.events[i].call = "clean") => last.events[k].call = "clean"

\* C15 (no match leaves the document untouched): right after an attempt in
\* which convertOptionalChaining returned null, the candidate in the document
\* is the node it was before the attempt and the declarations are the ones
\* there were before the attempt.
C15_NoMatchLeavesDocument ==
    (ConvertAttempt /\ last.kind \in {"rejected", "detached"} /\ last.result = NoNode) =>
        /\ doc.decls = last.declsBefore
        /\ last.kind = "rejected" => NodeAt(doc.body, last.pos) = last.orig

\* the binding reached from `name` after `n` steps along `parent` ("" when
\* the walk has left the map)
RECURSIVE Ancestor(_, _, _)
Ancestor(varMap, name, n) ==
    IF name = "" \/ name \notin DOMAIN varMap THEN ""
    ELSE IF n = 0 THEN name
    ELSE Ancestor(varMap, varMap[name].parent, n - 1)

\* the walk along `parent` from `name` comes back to a binding it has left:
\* after as many steps as the map has bindings it is still inside the map
OnParentCycle(varMap, name) ==
    Ancestor(varMap, name, Cardinality(DOMAIN varMap)) # ""

\* the map analyzeConditions builds for the node, and the name the trace-back
\* of buildOptionalChain starts from
VarMapOf(node) ==
    analyzeConditions(
        extractLogicalOrConditions(Test(Right(Right(Left(Test(node))))))).varMap
TraceStart(node) == Object(Alternate(Right(Right(Left(Test(node)))))).tag

\* C16 (termination of the trace-back): for every map analyzeConditions
\* builds, following `parent` from the object of the final access leaves the
\* map after finitely many steps, so the call of analyzeOptionalChain returns.
C16_TraceBackTerminates ==
    Analyzed =>
        /\ ~last.diverged
        /\ last.exit \in {"result", "final-expr"} =>
              ~OnParentCycle(VarMapOf(last.orig), TraceStart(last.orig))


=============================================================================
